---- MODULE Spec2Model ----
(***************************************************************************)
(* Model of sumo/match_prediction.py: the temporal train/test splitter,    *)
(* the Elo rating model (predict / update / fit / evaluate), sort_matches  *)
(* and the __main__ evaluation harness.                                    *)
(*                                                                         *)
(* Python floats are modelled as binary floating point numbers with a      *)
(* Prec-bit significand on a grid of 2^-Frac: a value v is held as the     *)
(* integer v * 2^Frac, and every float operation rounds its exact result   *)
(* to Prec significant bits (round half to even), as IEEE-754 does with    *)
(* 53 bits.                                                                *)
(***************************************************************************)
EXTENDS Integers, Sequences, FiniteSets, TLC

VARIABLES
    basho_dates,  \* the basho table read by __main__: basho id -> start date
    K,            \* EloModel.K
    stats,        \* EloModel.stats, a defaultdict: the keys present and their values
    pc,           \* where the model's caller is: "idle", or inside evaluate
    entry,        \* "evaluate" once evaluate has been entered
    args,         \* the matches argument of the running evaluate
    todo,         \* what is left of the iteration over sort_matches(matches)
    correct,      \* evaluate's counter
    result,       \* the value the last fit / evaluate returned
    start,        \* history: stats when the running evaluate was entered
    log,          \* history: the predict and update calls of the running evaluate
    last,         \* history: the latest predict or update call and stats before it
    ops,          \* number of predict / update calls made so far
    split,        \* train_test_split: its arguments and its outcome
    main          \* __main__: its local variables

vars == <<basho_dates, K, stats, pc, entry, args, todo, correct, result, start,
          log, last, ops, split, main>>

\* ------------------------------------------------------------------------
\* Floating point
\* ------------------------------------------------------------------------
\* the grid and the significand of the modelled floats
Frac == 14
Prec == 14
One == 2^Frac

Abs(x) == IF x < 0 THEN -x ELSE x

\* nearest integer to n / d, for d > 0
RDiv(n, d) == (2 * n + d) \div (2 * d)

\* the spacing of the floats around magnitude m
RECURSIVE Quantum(_, _)
Quantum(m, q) == IF m < q * 2^Prec THEN q ELSE Quantum(m, 2 * q)

Ulp(x) == Quantum(Abs(x), 1)

\* round x to the nearest float, ties to the even significand
Round(x) ==
    LET q == Ulp(x)
        lo == (x \div q) * q
        r == x - lo
    IN  IF 2 * r < q THEN lo
        ELSE IF 2 * r > q THEN lo + q
        ELSE IF (lo \div q) % 2 = 0 THEN lo ELSE lo + q

FAdd(x, y) == Round(x + y)
FSub(x, y) == Round(x - y)
\* int * float
FMulInt(k, x) == Round(k * x)
\* float / int
FDivInt(x, k) == Round(RDiv(x, k))
\* float / float, for y > 0
FDiv(x, y) == Round(RDiv(x * One, y))

\* 10 ** x as the math library computes it: 10^x = 2^(x * log2 10), the
\* integer part of the exponent a scaling by a power of two, the fraction
\* f = j/16 + g through a table of 2^(j/16) and the series of 2^g.
TableUnit == 32768
Log2Ten == 108853
Ln2 == 22713
Exp2Table == <<32768, 34219, 35734, 37316, 38968, 40693, 42495, 44376,
               46341, 48393, 50535, 52773, 55109, 57549, 60097, 62757>>

Pow10(x) ==
    LET y == RDiv(x * Log2Ten, TableUnit)
        n == y \div One
        f == y - n * One
        j == (16 * f) \div One
        g == f - RDiv(j * One, 16)
        u == RDiv(g * Ln2, TableUnit)
        series == One + u + RDiv(u * u, 2 * One)
        t == RDiv(Exp2Table[j + 1] * One, TableUnit)
        m == RDiv(t * series, One)
    IN  Round(IF n >= 0 THEN m * 2^n ELSE RDiv(m, 2^(-n)))

\* ------------------------------------------------------------------------
\* EloModel
\* ------------------------------------------------------------------------
Prior == 1500 * One

\* self.stats[r] on a defaultdict: the value read ...
Get(st, r) == IF r \in DOMAIN st THEN st[r] ELSE Prior
\* ... and the dictionary after the read, which inserts a missing key
Touch(st, r) == IF r \in DOMAIN st THEN st ELSE st @@ (r :> Prior)

\* predict with the comparison slipped to >=: a tie goes to the first
predictTieFirst(st, rikishi1, rikishi2) ==
    LET mean1 == Get(st, rikishi1)
        mean2 == Get(Touch(st, rikishi1), rikishi2)
    IN  IF mean1 >= mean2 THEN rikishi1 ELSE rikishi2

\* EloModel.predict: the value returned
predict(st, rikishi1, rikishi2) ==
    LET mean1 == Get(st, rikishi1)
        mean2 == Get(Touch(st, rikishi1), rikishi2)
    IN  IF mean1 > mean2 THEN rikishi1 ELSE rikishi2

\* d[k] = v
Store(st, k, v) == [x \in DOMAIN st \cup {k} |-> IF x = k THEN v ELSE st[x]]

\* predict that assigns the prior to the two rikishi instead of reading them
predictStatsReset(st, rikishi1, rikishi2) ==
    Store(Store(st, rikishi1, Prior), rikishi2, Prior)

\* EloModel.predict: the dictionary after the two reads
predictStats(st, rikishi1, rikishi2) == Touch(Touch(st, rikishi1), rikishi2)

\* update with the sign of the second rikishi's change slipped
updateSignSlip(st, k, rikishi1, rikishi2, winner) ==
    LET st0 == Touch(Touch(st, rikishi1), rikishi2)
        mean1 == st0[rikishi1]
        mean2 == st0[rikishi2]
        exp1 == FDiv(One, FAdd(One, Pow10(FDivInt(FSub(mean2, mean1), 400))))
        exp2 == FSub(One, exp1)
        s1 == IF winner = rikishi1 THEN 1 ELSE 0
        s2 == 1 - s1
        new_mean1 == FAdd(mean1, FMulInt(k, FSub(s1 * One, exp1)))
        new_mean2 == FSub(mean2, FMulInt(k, FSub(s2 * One, exp2)))
    IN  Store(Store(st0, rikishi1, new_mean1), rikishi2, new_mean2)

\* update that gives the second rikishi no credit for a win: s2 = 0
updateNoSecondScore(st, k, rikishi1, rikishi2, winner) ==
    LET st0 == Touch(Touch(st, rikishi1), rikishi2)
        mean1 == st0[rikishi1]
        mean2 == st0[rikishi2]
        exp1 == FDiv(One, FAdd(One, Pow10(FDivInt(FSub(mean2, mean1), 400))))
        exp2 == FSub(One, exp1)
        s1 == IF winner = rikishi1 THEN 1 ELSE 0
        s2 == 0
        new_mean1 == FAdd(mean1, FMulInt(k, FSub(s1 * One, exp1)))
        new_mean2 == FAdd(mean2, FMulInt(k, FSub(s2 * One, exp2)))
    IN  Store(Store(st0, rikishi1, new_mean1), rikishi2, new_mean2)

\* EloModel.update: the dictionary after the call
update(st, k, rikishi1, rikishi2, winner) ==
    LET st0 == Touch(Touch(st, rikishi1), rikishi2)
        mean1 == st0[rikishi1]
        mean2 == st0[rikishi2]
        exp1 == FDiv(One, FAdd(One, Pow10(FDivInt(FSub(mean2, mean1), 400))))
        exp2 == FSub(One, exp1)
        s1 == IF winner = rikishi1 THEN 1 ELSE 0
        s2 == 1 - s1
        new_mean1 == FAdd(mean1, FMulInt(k, FSub(s1 * One, exp1)))
        new_mean2 == FAdd(mean2, FMulInt(k, FSub(s2 * One, exp2)))
    IN  Store(Store(st0, rikishi1, new_mean1), rikishi2, new_mean2)

\* ------------------------------------------------------------------------
\* Matches
\* ------------------------------------------------------------------------
\* the number of predict and update calls made on one EloModel
MaxOps == 2

Rikishi == 1..3
Basho == 1..2
Days == 1..2
\* start dates are ISO date strings, compared as strings; date d stands for
\* the d-th of them in that order
Dates == 1..2
Ks == {8, 16, 32, 64, 128}

\* the basho tables: every basho has a start date, no two the same one
DateIndexes ==
    {d \in [Basho -> Dates] : \A x \in Basho, y \in Basho : d[x] = d[y] => x = y}

\* class Match, with the fields the models read (a bout has two distinct
\* rikishi, one of whom won)
Matches ==
    {m \in [basho_id : Basho, rikishi1_id : Rikishi, rikishi2_id : Rikishi,
            winner_id : Rikishi, day : Days] :
        /\ m.rikishi1_id # m.rikishi2_id
        /\ m.winner_id \in {m.rikishi1_id, m.rikishi2_id}}

\* the bouts between rikishi 1 and rikishi 2, from which the lists of matches
\* given to fit, evaluate, train_test_split and __main__ are made
Bouts == {m \in Matches : {m.rikishi1_id, m.rikishi2_id} = {1, 2}}

\* the lists of at most n elements of S
RECURSIVE SeqsUpTo(_, _)
SeqsUpTo(S, n) ==
    IF n = 0 THEN {<<>>}
    ELSE LET shorter == SeqsUpTo(S, n - 1)
         IN  shorter \cup {Append(s, x) : s \in {t \in shorter : Len(t) = n - 1}, x \in S}

\* tuple comparison of two (first, second) keys
KeyLess(k1, k2) == k1[1] < k2[1] \/ (k1[1] = k2[1] /\ k1[2] < k2[2])

\* sorted(seq, key=...): stable, equal keys keep their input order; key is
\* the key function, given as a function on the elements of seq
RECURSIVE InsertSorted(_, _, _)
InsertSorted(sorted, m, key) ==
    IF sorted = <<>> THEN <<m>>
    ELSE IF KeyLess(key[m], key[Head(sorted)]) THEN <<m>> \o sorted
    ELSE <<Head(sorted)>> \o InsertSorted(Tail(sorted), m, key)

RECURSIVE StableSort(_, _)
StableSort(seq, key) ==
    IF seq = <<>> THEN <<>>
    ELSE InsertSorted(StableSort(SubSeq(seq, 1, Len(seq) - 1), key), seq[Len(seq)], key)

Elements(seq) == {seq[i] : i \in 1..Len(seq)}

sort_matches(matches) ==
    StableSort(matches, [x \in Elements(matches) |-> <<x.basho_id, x.day>>])

\* the accuracy with 1 for the empty list
AccuracyEmptyOne(n, matches) ==
    IF matches = <<>> THEN One ELSE Round(RDiv(n * One, Len(matches)))

\* correct / len(matches) if matches else 0
Accuracy(n, matches) ==
    IF matches = <<>> THEN 0 ELSE Round(RDiv(n * One, Len(matches)))

\* ------------------------------------------------------------------------
\* An EloModel and its callers
\* ------------------------------------------------------------------------
\* the values of the history variables and of the unused variables at the start
NoCall == [op |-> "none", a |-> 0, b |-> 0, winner |-> 0, before |-> <<>>, ret |-> 0]

NoSplit == [state |-> "unused"]
NoMain == [state |-> "unused"]

\* an EloModel(K); it is given no basho table
Init ==
    /\ basho_dates = <<>>
    /\ K \in Ks
    /\ stats = <<>>
    /\ pc = "idle"
    /\ entry = "none"
    /\ args = <<>>
    /\ todo = <<>>
    /\ correct = 0
    /\ result = 0
    /\ start = <<>>
    /\ log = <<>>
    /\ last = NoCall
    /\ ops = 0
    /\ split = NoSplit
    /\ main = NoMain

\* a caller calls model.predict(a, b)
CallPredict ==
    /\ pc = "idle"
    /\ ops < MaxOps
    /\ \E a \in Rikishi, b \in Rikishi :
        /\ stats' = predictStats(stats, a, b)
        /\ last' = [op |-> "predict", a |-> a, b |-> b, winner |-> 0,
                    before |-> stats, ret |-> predict(stats, a, b)]
    /\ ops' = ops + 1
    /\ UNCHANGED <<basho_dates, K, pc, entry, args, todo, correct, result, start,
                   log, split, main>>

\* a caller calls model.update(a, b, winner)
CallUpdate ==
    /\ pc = "idle"
    /\ ops < MaxOps
    /\ \E a \in Rikishi, b \in Rikishi, winner \in Rikishi :
        /\ stats' = update(stats, K, a, b, winner)
        /\ last' = [op |-> "update", a |-> a, b |-> b, winner |-> winner,
                    before |-> stats, ret |-> 0]
    /\ ops' = ops + 1
    /\ UNCHANGED <<basho_dates, K, pc, entry, args, todo, correct, result, start,
                   log, split, main>>

\* evaluate(matches) is entered, from fit(matches) or from another caller, on
\* a model whose stats are st: correct = 0, and the iteration over
\* sort_matches(matches) begins
Enter(matches, st) ==
    /\ entry' = "evaluate"
    /\ args' = matches
    /\ todo' = sort_matches(matches)
    /\ correct' = 0
    /\ start' = st
    /\ log' = <<>>
    /\ pc' = "predict"

\* a caller calls model.fit(matches) or model.evaluate(matches)
CallEvaluate ==
    /\ pc = "idle"
    /\ \E matches \in SeqsUpTo(Bouts, MaxOps - ops) : Enter(matches, stats)
    /\ UNCHANGED <<basho_dates, K, stats, result, last, ops, split, main>>

\* the loop body with the prediction made after the update of the same match
EvaluatePredictLeaky ==
    /\ pc = "predict"
    /\ todo # <<>>
    /\ LET m == Head(todo)
           pred == predict(update(stats, K, m.rikishi1_id, m.rikishi2_id, m.winner_id),
                           m.rikishi1_id, m.rikishi2_id)
       IN  /\ stats' = predictStats(stats, m.rikishi1_id, m.rikishi2_id)
           /\ correct' = IF pred = m.winner_id THEN correct + 1 ELSE correct
           /\ log' = Append(log, [op |-> "predict", m |-> m, pred |-> pred])
           /\ last' = [op |-> "predict", a |-> m.rikishi1_id, b |-> m.rikishi2_id,
                       winner |-> 0, before |-> stats, ret |-> pred]
    /\ pc' = "update"
    /\ UNCHANGED <<basho_dates, K, entry, args, todo, result, start, ops, split, main>>

\* evaluate, loop body: pred = self.predict(...); if pred == m.winner_id: ...
EvaluatePredict ==
    /\ pc = "predict"
    /\ todo # <<>>
    /\ LET m == Head(todo)
           pred == predict(stats, m.rikishi1_id, m.rikishi2_id)
       IN  /\ stats' = predictStats(stats, m.rikishi1_id, m.rikishi2_id)
           /\ correct' = IF pred = m.winner_id THEN correct + 1 ELSE correct
           /\ log' = Append(log, [op |-> "predict", m |-> m, pred |-> pred])
           /\ last' = [op |-> "predict", a |-> m.rikishi1_id, b |-> m.rikishi2_id,
                       winner |-> 0, before |-> stats, ret |-> pred]
    /\ pc' = "update"
    /\ UNCHANGED <<basho_dates, K, entry, args, todo, result, start, ops, split, main>>

\* evaluate, loop body: self.update(...), and on to the next match
EvaluateUpdate ==
    /\ pc = "update"
    /\ LET m == Head(todo)
       IN  /\ stats' = update(stats, K, m.rikishi1_id, m.rikishi2_id, m.winner_id)
           /\ log' = Append(log, [op |-> "update", m |-> m, pred |-> 0])
           /\ last' = [op |-> "update", a |-> m.rikishi1_id, b |-> m.rikishi2_id,
                       winner |-> m.winner_id, before |-> stats, ret |-> 0]
    /\ todo' = Tail(todo)
    /\ ops' = ops + 1
    /\ pc' = "predict"
    /\ UNCHANGED <<basho_dates, K, entry, args, correct, result, start, split, main>>

\* evaluate: return correct / len(matches) if matches else 0
EvaluateReturn ==
    /\ pc = "predict"
    /\ todo = <<>>
    /\ result' = Accuracy(correct, args)
    /\ pc' = "idle"
    /\ UNCHANGED <<basho_dates, K, stats, entry, args, todo, correct, start, log,
                   last, ops, split, main>>

Next ==
    \/ CallPredict
    \/ CallUpdate
    \/ CallEvaluate
    \/ EvaluatePredict
    \/ EvaluateUpdate
    \/ EvaluateReturn

Spec == Init /\ [][Next]_vars

\* ------------------------------------------------------------------------
\* Properties of the EloModel
\* ------------------------------------------------------------------------
Rating(st, c) == IF c \in DOMAIN st THEN st[c] ELSE Prior

\* the matches whose loop body evaluate has entered, in processing order
Processed == [i \in 1..((Len(log) + 1) \div 2) |-> log[2 * i - 1].m]

\* stats after update has been applied to each match of ms in turn
RECURSIVE StatsAfter(_, _, _)
StatsAfter(st, k, ms) ==
    IF ms = <<>> THEN st
    ELSE StatsAfter(update(st, k, Head(ms).rikishi1_id, Head(ms).rikishi2_id,
                           Head(ms).winner_id), k, Tail(ms))

\* C1: in evaluate (and fit), for every match the call of predict comes
\* before the call of update for that match and after the updates of all
\* earlier matches: the prediction for the i-th processed match is the one
\* made from the ratings that the updates of matches 1..i-1 produce from the
\* ratings at entry, and correct counts exactly those predictions that equal
\* the winner.
C1_PredictBeforeUpdate ==
    LET done == Processed
    IN  /\ \A p \in 1..Len(log) :
            IF p % 2 = 1
            THEN /\ log[p].op = "predict"
                 /\ log[p].pred =
                        predict(StatsAfter(start, K, SubSeq(done, 1, (p - 1) \div 2)),
                                log[p].m.rikishi1_id, log[p].m.rikishi2_id)
            ELSE /\ log[p].op = "update"
                 /\ log[p].m = log[p - 1].m
        /\ correct = Cardinality({i \in 1..Len(done) :
                                     log[2 * i - 1].pred = done[i].winner_id})

\* a second match has been predicted, and the update of the first match
\* changed that prediction
C1_Witness ==
    /\ Len(log) >= 4
    /\ log[3].pred # predict(start, log[3].m.rikishi1_id, log[3].m.rikishi2_id)

\* C2: whatever the date index, fit and evaluate process the matches in the
\* order of (tournament start date from the index, day): a match with a
\* later key is never processed before a match with an earlier key.
DateKey(dates, m) == <<dates[m.basho_id], m.day>>

C2_ProcessedInDateOrder ==
    \A dates \in DateIndexes :
        \A i \in 1..Len(Processed), j \in 1..Len(Processed) :
            i < j => ~KeyLess(DateKey(dates, Processed[j]), DateKey(dates, Processed[i]))

\* C4 as stated: after any update(a, b, winner) the two ratings sum to what
\* they summed to before the call.
SumAB(st) == Rating(st, last.a) + Rating(st, last.b)

C4_Tolerance ==
    K * Ulp(One) + 2 * (Ulp(Rating(stats, last.a)) + Ulp(Rating(stats, last.b)))

C5_PredictHigherElseB ==
    last.op = "predict" =>
        /\ last.ret \in {last.a, last.b}
        /\ (last.ret = last.a /\ last.a # last.b)
               <=> (Rating(last.before, last.a) > Rating(last.before, last.b))
        /\ Rating(last.before, last.a) <= Rating(last.before, last.b)
               => last.ret = last.b

\* two never-seen rikishi: predict returned the second
C5_Witness ==
    /\ last.op = "predict"
    /\ last.a # last.b
    /\ last.a \notin DOMAIN last.before
    /\ last.b \notin DOMAIN last.before
    /\ last.ret = last.b

\* C6 as stated: from the same ratings and with the winner one of the two,
\* update(a, b, winner) and update(b, a, winner) leave identical ratings.
Swapped == update(last.before, K, last.b, last.a, last.winner)

C6_SwapIdentical ==
    (last.op = "update" /\ last.winner \in {last.a, last.b}) => stats = Swapped

\* C6 amended: the two calls leave the same keys, the same ratings for every
\* rikishi other than a and b, and ratings of a and b that differ by no more
\* than the rounding of the float operations.
C6_Tolerance(c) == 2 * K * Ulp(One) + 2 * Ulp(Rating(stats, c))

C6_SwapClose ==
    (last.op = "update" /\ last.winner \in {last.a, last.b}) =>
        LET swapped == Swapped
        IN  /\ DOMAIN stats = DOMAIN swapped
            /\ \A c \in DOMAIN stats :
                IF c \in {last.a, last.b}
                THEN Abs(stats[c] - swapped[c]) <= C6_Tolerance(c)
                ELSE stats[c] = swapped[c]

\* an update between two rikishi of different ratings, a third one present
C6_Witness ==
    /\ last.op = "update"
    /\ last.winner \in {last.a, last.b}
    /\ Rating(last.before, last.a) # Rating(last.before, last.b)
    /\ DOMAIN stats # {last.a, last.b}
    /\ stats # last.before

\* C7: evaluate on an empty sequence returns 0 and leaves the ratings as they
\* were; on a non-empty sequence it returns correct / len(matches), between
\* 0 and 1.
C7_EvaluateResult ==
    [][(pc = "predict" /\ pc' = "idle") =>
        IF args = <<>>
        THEN result' = 0 /\ stats' = start
        ELSE /\ result' = Round(RDiv(correct * One, Len(args)))
             /\ correct \in 0..Len(args)
             /\ result' >= 0
             /\ result' <= One]_vars

\* evaluate has returned from an empty sequence on a model that has ratings
C7_Witness ==
    /\ pc = "idle"
    /\ entry = "evaluate"
    /\ args = <<>>
    /\ result = 0
    /\ stats # <<>>

\* C10: a rating value changes only in a call of update(a, b, winner), and
\* then only for a and b; predict changes no rating value, and a key that
\* appears holds the prior.
C10_OnlyUpdateChangesRatings ==
    [][/\ \A c \in Rikishi :
            Rating(stats', c) # Rating(stats, c)
                => (last'.op = "update" /\ last'.before = stats /\ c \in {last'.a, last'.b})
       /\ \A c \in DOMAIN stats' \ DOMAIN stats :
            (last'.op = "predict" \/ c \notin {last'.a, last'.b}) => stats'[c] = Prior
       /\ DOMAIN stats \subseteq DOMAIN stats']_vars

\* predict has just read two rikishi, one rated before and one never seen,
\* while a third holds a rating away from the prior
C10_Witness ==
    /\ last.op = "predict"
    /\ last.a \in DOMAIN last.before
    /\ last.b \notin DOMAIN last.before
    /\ last.b \in DOMAIN stats
    /\ \E c \in DOMAIN stats \ {last.a, last.b} : stats[c] # Prior

\* ------------------------------------------------------------------------
\* train_test_split
\* ------------------------------------------------------------------------
\* the longest list of matches given to train_test_split
MaxSplitLen == 3

\* the basho tables that may lack a basho
PartialDateIndexes ==
    UNION {{d \in [D -> Dates] : \A x \in D, y \in D : d[x] = d[y] => x = y} :
              D \in SUBSET Basho}

\* the matches given to the splitter, which reads their basho_id only
SplitMatches == {m \in Bouts : m.rikishi1_id = 1}

\* the cutoff dates: the dates of the basho tables and one after them
SplitDates == 1..3

InitSplit ==
    /\ basho_dates \in PartialDateIndexes
    /\ K = 0
    /\ stats = <<>>
    /\ pc = "idle"
    /\ entry = "none"
    /\ args = <<>>
    /\ todo = <<>>
    /\ correct = 0
    /\ result = 0
    /\ start = <<>>
    /\ log = <<>>
    /\ last = NoCall
    /\ ops = 0
    /\ \E matches \in SeqsUpTo(SplitMatches, MaxSplitLen), split_date \in SplitDates :
        split = [state |-> "running", matches |-> matches, split_date |-> split_date,
                 rest |-> matches, train |-> <<>>, test |-> <<>>, ret |-> <<>>,
                 error |-> "none"]
    /\ main = NoMain

\* the loop body with the comparison slipped to <=
SplitAppendInclusive ==
    /\ split.state = "running"
    /\ split.rest # <<>>
    /\ LET m == Head(split.rest)
       IN  /\ m.basho_id \in DOMAIN basho_dates
           /\ LET date == basho_dates[m.basho_id]
              IN  split' = IF date <= split.split_date
                           THEN [split EXCEPT !.train = Append(@, m), !.rest = Tail(@)]
                           ELSE [split EXCEPT !.test = Append(@, m), !.rest = Tail(@)]
    /\ UNCHANGED <<basho_dates, K, stats, pc, entry, args, todo, correct, result,
                   start, log, last, ops, main>>

\* for m in matches: date = basho_dates[m.basho_id]; the date is there and
\* m is appended to train or to test
SplitAppend ==
    /\ split.state = "running"
    /\ split.rest # <<>>
    /\ LET m == Head(split.rest)
       IN  /\ m.basho_id \in DOMAIN basho_dates
           /\ LET date == basho_dates[m.basho_id]
              IN  split' = IF date < split.split_date
                           THEN [split EXCEPT !.train = Append(@, m), !.rest = Tail(@)]
                           ELSE [split EXCEPT !.test = Append(@, m), !.rest = Tail(@)]
    /\ UNCHANGED <<basho_dates, K, stats, pc, entry, args, todo, correct, result,
                   start, log, last, ops, main>>

\* a lookup that skips a match whose basho has no date
SplitSkipMissing ==
    /\ split.state = "running"
    /\ split.rest # <<>>
    /\ Head(split.rest).basho_id \notin DOMAIN basho_dates
    /\ split' = [split EXCEPT !.rest = Tail(@)]
    /\ UNCHANGED <<basho_dates, K, stats, pc, entry, args, todo, correct, result,
                   start, log, last, ops, main>>

\* date = basho_dates[m.basho_id] raises KeyError: the call ends there
SplitKeyError ==
    /\ split.state = "running"
    /\ split.rest # <<>>
    /\ Head(split.rest).basho_id \notin DOMAIN basho_dates
    /\ split' = [split EXCEPT !.state = "raised", !.error = "KeyError"]
    /\ UNCHANGED <<basho_dates, K, stats, pc, entry, args, todo, correct, result,
                   start, log, last, ops, main>>

\* return train, test
SplitReturn ==
    /\ split.state = "running"
    /\ split.rest = <<>>
    /\ split' = [split EXCEPT !.state = "returned", !.ret = <<split.train, split.test>>]
    /\ UNCHANGED <<basho_dates, K, stats, pc, entry, args, todo, correct, result,
                   start, log, last, ops, main>>

NextSplit ==
    \/ SplitAppend
    \/ SplitKeyError
    \/ SplitReturn

SpecSplit == InitSplit /\ [][NextSplit]_vars

\* number of times x occurs in seq
Count(seq, x) == Cardinality({i \in 1..Len(seq) : seq[i] = x})

\* sub is seq with some elements left out
RECURSIVE IsSubsequence(_, _)
IsSubsequence(sub, seq) ==
    IF sub = <<>> THEN TRUE
    ELSE IF seq = <<>> THEN FALSE
    ELSE IF Head(sub) = Head(seq) THEN IsSubsequence(Tail(sub), Tail(seq))
    ELSE IsSubsequence(sub, Tail(seq))

\* C3: with every basho id in the date index, train_test_split returns
\* (train, test) where the matches dated strictly before the cutoff are in
\* train and all others in test, each match occurs in the two lists together
\* as often as in the input, and train and test are subsequences of the input.
C3_SplitPartitions ==
    split.state = "returned" =>
        LET train == split.ret[1]
            test == split.ret[2]
        IN  /\ \A i \in 1..Len(train) : basho_dates[train[i].basho_id] < split.split_date
            /\ \A i \in 1..Len(test) : basho_dates[test[i].basho_id] >= split.split_date
            /\ \A x \in Elements(split.matches) :
                /\ Count(train, x) + Count(test, x) = Count(split.matches, x)
                /\ basho_dates[x.basho_id] < split.split_date => Count(test, x) = 0
                /\ basho_dates[x.basho_id] >= split.split_date => Count(train, x) = 0
            /\ Len(train) + Len(test) = Len(split.matches)
            /\ IsSubsequence(train, split.matches)
            /\ IsSubsequence(test, split.matches)

\* a split of three matches, one of them dated exactly at the cutoff, that
\* filled both lists
C3_Witness ==
    /\ split.state = "returned"
    /\ Len(split.matches) = 3
    /\ split.ret[1] # <<>>
    /\ \E i \in 1..Len(split.ret[2]) :
        basho_dates[split.ret[2][i].basho_id] = split.split_date
    /\ split.matches[1] # split.matches[2]

\* C9: if a match has a basho id that the date index lacks, the split fails
\* at that match with the lookup's error and returns nothing; with every id
\* present it never fails.
MissingTournamentDate == "KeyError"

MaxRows == 2
\* split_date = "2023-01-01", on the scale of Dates
SplitDate == 2
\* the models list: EloModel(K=8), ..., EloModel(K=128), XGBoostModel()
EloKs == <<8, 16, 32, 64, 128>>
Models == [i \in 1..(Len(EloKs) + 1) |->
              IF i <= Len(EloKs) THEN <<"Elo", EloKs[i]>> ELSE <<"XGBoost", 0>>]

InitMain ==
    /\ basho_dates \in PartialDateIndexes
    /\ K = 0
    /\ stats = <<>>
    /\ pc = "idle"
    /\ entry = "none"
    /\ args = <<>>
    /\ todo = <<>>
    /\ correct = 0
    /\ result = 0
    /\ start = <<>>
    /\ log = <<>>
    /\ last = NoCall
    /\ ops = 0
    /\ split = NoSplit
    /\ \E rows \in SeqsUpTo(Bouts, MaxRows) :
        main = [state |-> "start", rows |-> rows, matches |-> <<>>, train |-> <<>>,
                test |-> <<>>, models |-> <<>>, train_accuracy |-> 0, accs |-> <<>>,
                out |-> <<>>]

\* load_matches_and_basho_dates: the rows of the match table sorted by
\* (basho_dates[m.basho_id], m.day)
MainLoad ==
    /\ main.state = "start"
    /\ \A i \in 1..Len(main.rows) : main.rows[i].basho_id \in DOMAIN basho_dates
    /\ main' = [main EXCEPT
                  !.state = "loaded",
                  !.matches = StableSort(main.rows,
                      [m \in Elements(main.rows) |-> <<basho_dates[m.basho_id], m.day>>])]
    /\ UNCHANGED <<basho_dates, K, stats, pc, entry, args, todo, correct, result,
                   start, log, last, ops, split>>

\* load_matches_and_basho_dates: a match of a basho that the basho table
\* lacks makes the sort key raise KeyError
MainLoadKeyError ==
    /\ main.state = "start"
    /\ \E i \in 1..Len(main.rows) : main.rows[i].basho_id \notin DOMAIN basho_dates
    /\ main' = [main EXCEPT !.state = "raised"]
    /\ UNCHANGED <<basho_dates, K, stats, pc, entry, args, todo, correct, result,
                   start, log, last, ops, split>>

\* train, test = train_test_split(matches, basho_dates, split_date): the call
MainSplit ==
    /\ main.state = "loaded"
    /\ split' = [state |-> "running", matches |-> main.matches, split_date |-> SplitDate,
                 rest |-> main.matches, train |-> <<>>, test |-> <<>>, ret |-> <<>>,
                 error |-> "none"]
    /\ main' = [main EXCEPT !.state = "splitting"]
    /\ UNCHANGED <<basho_dates, K, stats, pc, entry, args, todo, correct, result,
                   start, log, last, ops>>

\* ... its return; models = [...]; accs = {}
MainModels ==
    /\ main.state = "splitting"
    /\ split.state = "returned"
    /\ main' = [main EXCEPT !.state = "loop", !.train = split.ret[1],
                            !.test = split.ret[2], !.models = Models, !.accs = <<>>]
    /\ UNCHANGED <<basho_dates, K, stats, pc, entry, args, todo, correct, result,
                   start, log, last, ops, split>>

\* for model in models: train_accuracy = model.fit(train), the call, on an
\* EloModel, which was constructed with its K and empty stats
MainFit ==
    /\ main.state = "loop"
    /\ main.models # <<>>
    /\ Head(main.models)[1] = "Elo"
    /\ K' = Head(main.models)[2]
    /\ stats' = <<>>
    /\ Enter(main.train, <<>>)
    /\ main' = [main EXCEPT !.state = "fitting"]
    /\ UNCHANGED <<basho_dates, result, last, ops, split>>

\* evaluate(test) on a model whose ratings are thrown away first
MainEvaluateFresh ==
    /\ main.state = "fitting"
    /\ pc = "idle"
    /\ stats' = <<>>
    /\ Enter(main.test, <<>>)
    /\ main' = [main EXCEPT !.state = "evaluating", !.train_accuracy = result]
    /\ UNCHANGED <<basho_dates, K, result, last, ops, split>>

\* fit has returned; test_accuracy = model.evaluate(test), the call
MainEvaluate ==
    /\ main.state = "fitting"
    /\ pc = "idle"
    /\ Enter(main.test, stats)
    /\ main' = [main EXCEPT !.state = "evaluating", !.train_accuracy = result]
    /\ UNCHANGED <<basho_dates, K, stats, result, last, ops, split>>

\* evaluate has returned; accs[model.name()] = (train_accuracy, test_accuracy)
MainRecord ==
    /\ main.state = "evaluating"
    /\ pc = "idle"
    /\ main' = [main EXCEPT
                  !.state = "loop",
                  !.accs = Append(@, [name |-> Head(main.models),
                                      train |-> main.train_accuracy, test |-> result]),
                  !.models = Tail(@)]
    /\ UNCHANGED <<basho_dates, K, stats, pc, entry, args, todo, correct, result,
                   start, log, last, ops, split>>

\* the loop body for the XGBoostModel: the classifier is a library, and its
\* two accuracies are any fraction of the matches it is given
MainXGBoost ==
    /\ main.state = "loop"
    /\ main.models # <<>>
    /\ Head(main.models)[1] = "XGBoost"
    /\ \E n1 \in 0..Len(main.train), n2 \in 0..Len(main.test) :
        main' = [main EXCEPT
                   !.accs = Append(@, [name |-> Head(main.models),
                                       train |-> Accuracy(n1, main.train),
                                       test |-> Accuracy(n2, main.test)]),
                   !.models = Tail(@)]
    /\ UNCHANGED <<basho_dates, K, stats, pc, entry, args, todo, correct, result,
                   start, log, last, ops, split>>

\* rows = [... for ... in sorted(accs.items(), key=lambda x: x[1][1],
\* reverse=True)]: by test accuracy, highest first, equal ones in the order
\* of accs; and the table is printed
MainPrint ==
    /\ main.state = "loop"
    /\ main.models = <<>>
    /\ main' = [main EXCEPT
                  !.state = "done",
                  !.out = StableSort(main.accs,
                              [r \in Elements(main.accs) |-> <<0 - r.test, 0>>])]
    /\ UNCHANGED <<basho_dates, K, stats, pc, entry, args, todo, correct, result,
                   start, log, last, ops, split>>

NextMain ==
    \/ MainLoad
    \/ MainLoadKeyError
    \/ MainSplit
    \/ SplitAppend
    \/ SplitReturn
    \/ MainModels
    \/ MainFit
    \/ EvaluatePredict
    \/ EvaluateUpdate
    \/ EvaluateReturn
    \/ MainEvaluate
    \/ MainRecord
    \/ MainXGBoost
    \/ MainPrint

SpecMain == InitMain /\ [][NextMain]_vars

\* the number of correct predictions of evaluate over the sorted matches ms,
\* on a model with stats st
RECURSIVE CorrectCount(_, _, _)
CorrectCount(st, k, ms) ==
    IF ms = <<>> THEN 0
    ELSE LET m == Head(ms)
             hit == IF predict(st, m.rikishi1_id, m.rikishi2_id) = m.winner_id
                    THEN 1 ELSE 0
         IN  hit + CorrectCount(update(st, k, m.rikishi1_id, m.rikishi2_id, m.winner_id),
                                k, Tail(ms))

\* what evaluate(matches) returns on a model with stats st
EvaluateValue(st, k, matches) == Accuracy(CorrectCount(st, k, sort_matches(matches)), matches)

\* the train accuracy of a fresh EloModel(k), and its test accuracy after fit
TrainAccuracy(k) == EvaluateValue(<<>>, k, main.train)
TestAccuracy(k) ==
    EvaluateValue(StatsAfter(<<>>, k, sort_matches(main.train)), k, main.test)

\* the first candidate, in list order, of maximum train accuracy
BestK ==
    LET i == CHOOSE i \in 1..Len(EloKs) :
                 /\ \A j \in 1..Len(EloKs) : TrainAccuracy(EloKs[j]) <= TrainAccuracy(EloKs[i])
                 /\ \A j \in 1..(i - 1) : TrainAccuracy(EloKs[j]) < TrainAccuracy(EloKs[i])
    IN  EloKs[i]

EloRows == {i \in 1..Len(main.out) : main.out[i].name[1] = "Elo"}

====
